---------------------------- MODULE Spec2Model ----------------------------
(***************************************************************************)
(* Model of the action dispatch and execution engine of nendo-server:      *)
(*   - dockerized_func          (handler/nendo_actions_handler.py 28-211)  *)
(*   - create_docker_action     (handler/nendo_actions_handler.py 283-466) *)
(*   - abort_action             (handler/nendo_actions_handler.py 513-534) *)
(* The work store (RQ on Redis) and the container runtime (Docker) are the *)
(* environment: their calls are the atomic steps of the model, and the     *)
(* processes of the program (API server, worker, work horse) interleave    *)
(* between any two of them.                                                *)
(*                                                                         *)
(* Spec     : life cycle of work units executed in run mode                *)
(* SpecPlan : the chunk planner and the enqueue loop of one submission     *)
(* SpecStore: the jobs of several users in the work store, and             *)
(*            get_action_status                                            *)
(*                                                                         *)
(* What the model takes from the environment:                              *)
(*  - RQ: a worker dequeues the head of its queue, marks the job started   *)
(*    and forks a work horse; a function that returns makes the job        *)
(*    finished, one that raises makes it failed; Job.cancel() removes the  *)
(*    job from its queue and marks it canceled whatever its state;         *)
(*    send_stop_job_command reaches the worker executing the job, which    *)
(*    kills its horse and marks the job stopped (in the failed registry);  *)
(*    canceled jobs sit in a registry _get_all_job_ids does not read.      *)
(*  - Docker SDK: containers.run(detach=True) returns a container whose    *)
(*    attrs are those read at creation; attrs change only on reload();     *)
(*    stop() and kill() end a running container with a non-zero exit code; *)
(*    kill() is refused for a container that is not running, remove() for  *)
(*    one that is; get() raises when no container bears the name.  Every   *)
(*    call may also fail for a reason of the daemon (`ok` is FALSE).       *)
(*  - Time passes in time.sleep(2) only.                                   *)
(* A unit interacts with the other units only through the worker that      *)
(* runs one unit at a time and through its own uniquely named container:   *)
(* Spec follows one unit.                                                  *)
(***************************************************************************)
EXTENDS Integers, Sequences, FiniteSets, TLC

(***************************************************************************)
(* Bounds of the model                                                     *)
(***************************************************************************)
MaxElapsed == 6        \* the wall clock of a unit saturates here (seconds)
MaxLogLen == 2         \* longest container log, in characters
MaxTracks == 3         \* most tracks of a target collection or library
MaxDur == 3            \* longest track duration
MaxProcs == 5          \* most worker processes ever spawned
MaxBoots == 6          \* most starts of server processes
MaxPending == 2        \* most pending units on one gpu queue
MaxScriptTracks == 2   \* most tracks the script of a unit works on

(***************************************************************************)
(* Program constants                                                       *)
(***************************************************************************)
PollInterval == 2      \* time.sleep(2)
KilledCode == 137      \* exit code of a container ended by stop()/kill()

None == "none"
Units == {"u1"}
Workers == {"w1"}
FuncTimeouts == {0, 2}     \* func_timeout: 0 means no timeout
ExitCodes == {0, 1}        \* exit codes a script ends with by itself
LogChars == {"a", "\n"}

\* every byte string a container can have written, as a sequence of characters
Logs == UNION {[1..n -> LogChars] : n \in 0..MaxLogLen}

VARIABLES
  \* ---- work store (RQ)
  job_status,      \* Job.get_status() of every unit
  registry,        \* the lifecycle registry holding the unit
  queue,           \* queue.job_ids: the pending units, FIFO
  job_result,      \* job.result: <<>> for None, else <<the returned line>>
  exc_info,        \* job.exc_info
  worker_job,      \* the unit a worker is executing
  stop_cmds,       \* stop-job commands in flight: <<worker, unit>>
  \* ---- container runtime (Docker)
  container,       \* the container named after the unit
  \* ---- work horse running dockerized_func
  hpc,             \* position of the horse in dockerized_func
  attrs,           \* container.attrs: the horse's last snapshot
  elapsed_time,    \* seconds since start_time
  func_timeout,    \* the watchdog timeout of the unit
  log_lines,       \* the decoded log the horse has read
  \* ---- abort_action
  apc,             \* position of the abort_action call on the unit
  a_status,        \* job_status as read by abort_action
  abort_ret,       \* what the last abort_action on the unit returned
  a_early,         \* whether that call began between pick-up and create
  a_raised,        \* whether an exception was raised in that call
  \* ---- history
  hist,            \* per unit: what has happened to it (exited: the exit
                   \* code the container ended with, -1 while it has not)
  \* ---- create_docker_action
  ppc,                  \* position in create_docker_action
  target_type,          \* "track", "collection" or "none" (whole library)
  tracks,               \* durations of the target's tracks, in library order
  max_track_duration,
  max_chunk_duration,
  chunk_actions,        \* server_config.chunk_actions
  run_without_target,
  gpu,                  \* gpu and server_config.use_gpu
  k,                    \* index of the next track of the loop
  target_collections,   \* the chunk collections, in order
  chunk_duration,
  chunk_nr,
  skipped_tracks,       \* titles of the skipped tracks
  actions,              \* the units enqueued by the submission, in order
  param_type,           \* type of the script parameter of kwargs, once read
  perr,                 \* the error create_docker_action raised
  ret,                  \* index of the unit whose id was returned, -1 before
  \* ---- the work store as the handlers of several users see it
  use_gpu,         \* server_config.use_gpu
  s_queue,         \* the queue every job was enqueued on (job.origin)
  s_place,         \* the queue or registry that lists the job id
  s_status,        \* Job.get_status() of every job
  reply,           \* what the get_action_status call that just returned gave
  submitted,       \* the submission that just returned: request and outcome
  s_container,     \* whether a container named after the job exists
  abort_reply,     \* the abort_action call that just returned, and its result
  \* ---- dockerized_func: the environment of the container
  env,             \* the env argument: a map, meaningful when env_given
  env_given,       \* FALSE when env is None
  env_vars,        \* the environment passed to the container runtime
  epc,             \* position in dockerized_func before the container starts
  \* ---- the worker processes spawned by the worker manager
  procs,           \* every process ever spawned, in the order of spawning
  raced,           \* whether a spawn call found a process not yet registered
  reg,             \* per user: how far on_after_register has come
  \* ---- the server processes of one deployment (main.py)
  lock,            \* whether LOCK_FILE exists
  sp,              \* every server process: down, master, follower, stopped
  boots,           \* number of starts of server processes so far
  \* ---- the gpu workers dequeuing from the gpu queues of the users
  gq,              \* number of pending units on the gpu queue of every user
  order,           \* per gpu worker: its queues in the order it polls them
  last_dq,         \* per gpu worker: its last dequeue
  \* ---- dockerized_func in exec mode (exec_run is True)
  xpc,             \* position of the work horse in the exec branch
  x_container,     \* state of the container named container_name
  x_before,        \* state of that container when the unit started
  x_code,          \* exit_code of exec_run, -1 before
  x_out,           \* output of exec_run
  x_status,        \* status of the unit
  x_result,        \* <<result>> of the unit once finished
  x_exc,           \* the exception that failed the unit
  \* ---- the metadata of the last unit of a submission and its two writers
  m_store,         \* job.meta as the work store holds it
  m_skipped,       \* skipped_tracks of the submission
  d_local,         \* action.meta of the dispatcher (create_docker_action)
  dpc,             \* position of the dispatcher
  s_local,         \* job.meta of the script in the container
  s_tracks,        \* number of tracks of the unit's collection
  s_track,         \* the track the script works on
  spc              \* position of the script

lifeVars == <<job_status, registry, queue, job_result, exc_info, worker_job,
              stop_cmds, container, hpc, attrs, elapsed_time, func_timeout,
              log_lines, apc, a_status, abort_ret, a_early, a_raised, hist>>

planVars == <<ppc, target_type, tracks, max_track_duration,
              max_chunk_duration, chunk_actions, run_without_target, gpu, k,
              target_collections, chunk_duration, chunk_nr, skipped_tracks,
              actions, param_type, perr, ret>>

storeVars == <<use_gpu, s_queue, s_place, s_status, reply, submitted,
               s_container, abort_reply>>

envVars == <<env, env_given, env_vars, epc>>

poolVars == <<procs, raced, reg>>

electVars == <<lock, sp, boots>>

dispVars == <<gq, order, last_dq>>

execVars == <<xpc, x_container, x_before, x_code, x_out, x_status, x_result,
              x_exc>>

metaVars == <<m_store, m_skipped, d_local, dpc, s_local, s_tracks, s_track, spc>>

auxVars == <<execVars, metaVars>>

sysVars == <<envVars, poolVars, electVars, dispVars, auxVars>>

vars == <<lifeVars, planVars, storeVars, sysVars>>

(***************************************************************************)
(* Pure functions of dockerized_func                                       *)
(***************************************************************************)
\* str.split("\n"): its result is never empty
RECURSIVE Split(_)
Split(s) ==
  IF s = <<>> THEN << <<>> >>
  ELSE LET rest == Split(Tail(s)) IN
       IF Head(s) = "\n" THEN << <<>> >> \o rest
       ELSE << <<Head(s)>> \o Head(rest) >> \o Tail(rest)

\* whether `log_lines[-2] if log_lines[-1] == "" else log_lines[-1]` raises
\* IndexError
LastLineRaises(lines) == lines[Len(lines)] = <<>> /\ Len(lines) < 2

\* log_lines[-2] if log_lines[-1] == "" else log_lines[-1]
LastLine(lines) ==
  IF lines[Len(lines)] = <<>> THEN lines[Len(lines) - 1] ELSE lines[Len(lines)]

\* mutant of TimeoutReached: the test `func_timeout > 0` is forgotten
TimeoutReachedUnguarded(timeout, elapsed) == elapsed > timeout

\* (func_timeout > 0) and (elapsed_time > func_timeout)
TimeoutReached(timeout, elapsed) == timeout > 0 /\ elapsed > timeout


(***************************************************************************)
(* Work store and container runtime                                        *)
(***************************************************************************)
InQueue(u) == \E i \in 1..Len(queue) : queue[i] = u

RECURSIVE Without(_, _)
Without(q, u) ==
  IF q = <<>> THEN <<>>
  ELSE IF Head(q) = u THEN Without(Tail(q), u)
  ELSE <<Head(q)>> \o Without(Tail(q), u)

\* _get_all_job_ids: the queue and the started, deferred, finished, failed
\* and scheduled registries of the user's queues
InJobIds(u) == InQueue(u) \/ registry[u] \in {"started", "finished", "failed"}

NoContainer == [st |-> "absent", code |-> 0]
NoHist == [created |-> FALSE, watchdog |-> FALSE, cancel_ok |-> FALSE,
           early |-> "no", exited |-> -1, out |-> <<>>, infra |-> FALSE]

InfraSeen(u, ok) == [hist EXCEPT ![u].infra = @ \/ ~ok]

LifeIdle ==
  /\ job_status = [u \in Units |-> None]
  /\ registry = [u \in Units |-> None]
  /\ queue = <<>>
  /\ job_result = [u \in Units |-> <<>>]
  /\ exc_info = [u \in Units |-> None]
  /\ worker_job = [w \in Workers |-> None]
  /\ stop_cmds = {}
  /\ container = [u \in Units |-> NoContainer]
  /\ hpc = [u \in Units |-> None]
  /\ attrs = [u \in Units |-> NoContainer]
  /\ elapsed_time = [u \in Units |-> 0]
  /\ func_timeout = [u \in Units |-> 0]
  /\ log_lines = [u \in Units |-> << <<>> >>]
  /\ apc = [u \in Units |-> "idle"]
  /\ a_status = [u \in Units |-> None]
  /\ abort_ret = [u \in Units |-> None]
  /\ a_early = [u \in Units |-> FALSE]
  /\ a_raised = [u \in Units |-> FALSE]
  /\ hist = [u \in Units |-> NoHist]

PlanIdle ==
  /\ ppc = "idle"
  /\ target_type = "none"
  /\ tracks = <<>>
  /\ max_track_duration = 0
  /\ max_chunk_duration = 0
  /\ chunk_actions = FALSE
  /\ run_without_target = FALSE
  /\ gpu = FALSE
  /\ k = 1
  /\ target_collections = <<>>
  /\ chunk_duration = 0
  /\ chunk_nr = 0
  /\ skipped_tracks = <<>>
  /\ actions = <<>>
  /\ param_type = None
  /\ perr = None
  /\ ret = -1

Users == {"alice", "bob"}
Jobs == {"j1", "j2"}

\* Queue(user_id) and Queue(f"{user_id}-gpu")
QueueOf(user, family) == [user |-> user, family |-> family]
NoQueue == QueueOf(None, None)
NoReply == [user |-> None, unit |-> None, out |-> None]
NoSubmit == [user |-> None, gpu |-> FALSE, path |-> None, job |-> None,
             err |-> None]

StoreIdle ==
  /\ use_gpu = FALSE
  /\ s_queue = [j \in Jobs |-> NoQueue]
  /\ s_place = [j \in Jobs |-> None]
  /\ s_status = [j \in Jobs |-> None]
  /\ reply = NoReply
  /\ submitted = NoSubmit
  /\ s_container = [j \in Jobs |-> FALSE]
  /\ abort_reply = NoReply
\* a dict without entries
EmptyMap == [key \in {} |-> "engine"]

EnvIdle ==
  /\ env = EmptyMap
  /\ env_given = FALSE
  /\ env_vars = EmptyMap
  /\ epc = "idle"

PoolIdle ==
  /\ procs = <<>>
  /\ raced = FALSE
  /\ reg = [user \in Users |-> "no"]

ServerProcs == {"p1", "p2", "p3"}

ElectIdle ==
  /\ lock = FALSE
  /\ sp = [p \in ServerProcs |-> "down"]
  /\ boots = 0

GpuUsers == Users \cup {"carol"}
GpuWorkers == {"g1", "g2"}

\* no dequeue yet
NoDequeue == [user |-> None, again |-> FALSE, waiting |-> FALSE]

DispIdle ==
  /\ gq = [user \in GpuUsers |-> 0]
  /\ order = [w \in GpuWorkers |-> <<>>]
  /\ last_dq = [w \in GpuWorkers |-> NoDequeue]

ExecIdle ==
  /\ xpc = "idle"
  /\ x_container = "absent"
  /\ x_before = "absent"
  /\ x_code = -1
  /\ x_out = <<>>
  /\ x_status = None
  /\ x_result = <<>>
  /\ x_exc = None

\* the meta of a job nobody wrote to
NoMeta == [named |-> FALSE, progress |-> 0, errors |-> <<>>]

MetaIdle ==
  /\ m_store = NoMeta
  /\ m_skipped = <<>>
  /\ d_local = NoMeta
  /\ dpc = "idle"
  /\ s_local = NoMeta
  /\ s_tracks = 0
  /\ s_track = 0
  /\ spc = "idle"

AuxIdle == ExecIdle /\ MetaIdle

SysIdle == EnvIdle /\ PoolIdle /\ ElectIdle /\ DispIdle /\ AuxIdle

(***************************************************************************)
(* Submission of one unit and its pick-up by a worker                      *)
(***************************************************************************)
\* queue.enqueue(dockerized_func, ..., func_timeout, job_id=f"{job_id}_{i}")
Submit(u, t) ==
  /\ job_status[u] = None
  /\ job_status' = [job_status EXCEPT ![u] = "queued"]
  /\ queue' = Append(queue, u)
  /\ func_timeout' = [func_timeout EXCEPT ![u] = t]
  /\ UNCHANGED <<registry, job_result, exc_info, worker_job, stop_cmds,
                 container, hpc, attrs, elapsed_time, log_lines, apc,
                 a_status, abort_ret, a_early, a_raised, hist, planVars, storeVars, sysVars>>

\* an idle worker spawned on the queue dequeues its head, marks the unit
\* started and forks the work horse that calls dockerized_func
PickUp(w, u) ==
  /\ worker_job[w] = None
  /\ queue # <<>>
  /\ u = Head(queue)
  /\ queue' = Tail(queue)
  /\ job_status' = [job_status EXCEPT ![u] = "started"]
  /\ registry' = [registry EXCEPT ![u] = "started"]
  /\ worker_job' = [worker_job EXCEPT ![w] = u]
  /\ hpc' = [hpc EXCEPT ![u] = "run"]
  /\ elapsed_time' = [elapsed_time EXCEPT ![u] = 0]   \* start_time = now()
  /\ UNCHANGED <<job_result, exc_info, stop_cmds, container, attrs,
                 func_timeout, log_lines, apc, a_status, abort_ret, a_early, a_raised,
                 hist, planVars, storeVars, sysVars>>

(***************************************************************************)
(* The work horse: dockerized_func in run mode (exec_run is False)         *)
(***************************************************************************)
FreeWorker(u) == [w \in Workers |-> IF worker_job[w] = u THEN None
                                    ELSE worker_job[w]]

\* an exception leaves dockerized_func: the job fails with exc_info
HorseRaise(u, e) ==
  /\ job_status' = [job_status EXCEPT ![u] = "failed"]
  /\ registry' = [registry EXCEPT ![u] = "failed"]
  /\ exc_info' = [exc_info EXCEPT ![u] = e]
  /\ hpc' = [hpc EXCEPT ![u] = "done"]
  /\ worker_job' = FreeWorker(u)

\* dockerized_func returns: the job finishes with the returned value
HorseFinish(u, r) ==
  /\ job_status' = [job_status EXCEPT ![u] = "finished"]
  /\ registry' = [registry EXCEPT ![u] = "finished"]
  /\ job_result' = [job_result EXCEPT ![u] = <<r>>]
  /\ hpc' = [hpc EXCEPT ![u] = "done"]
  /\ worker_job' = FreeWorker(u)

\* container = client.containers.run(image_name, command, name=..., detach=True)
HorseRun(u, ok) ==
  /\ hpc[u] = "run"
  /\ hist' = [InfraSeen(u, ok) EXCEPT ![u].created = @ \/ ok]
  /\ IF ok
       THEN /\ container' = [container EXCEPT ![u] = [st |-> "running", code |-> 0]]
            /\ attrs' = [attrs EXCEPT ![u] = [st |-> "created", code |-> 0]]
            /\ hpc' = [hpc EXCEPT ![u] = "poll"]
            /\ UNCHANGED <<job_status, registry, exc_info, worker_job>>
       ELSE /\ HorseRaise(u, "infrastructure")
            /\ UNCHANGED <<container, attrs>>
  /\ UNCHANGED <<queue, job_result, stop_cmds, elapsed_time, func_timeout,
                 log_lines, apc, a_status, abort_ret, a_early, a_raised, planVars, storeVars, sysVars>>

\* the container of u ends with exit code `code`
Ended(u, code) ==
  container' = [container EXCEPT ![u] = [st |-> "exited", code |-> code]]

\* one iteration of the polling loop `while True:`
HorsePoll(u, ok) ==
  /\ hpc[u] = "poll"
  /\ IF TimeoutReached(func_timeout[u], elapsed_time[u])
       THEN \* container.stop(); break
            IF ok /\ container[u].st # "absent"
              THEN /\ \E log \in Logs :
                        IF container[u].st = "running"
                          THEN /\ Ended(u, KilledCode)
                               /\ hist' = [hist EXCEPT ![u].watchdog = TRUE,
                                                       ![u].exited = KilledCode,
                                                       ![u].out = log]
                          ELSE /\ UNCHANGED container
                               /\ hist' = [hist EXCEPT ![u].watchdog = TRUE]
                   /\ hpc' = [hpc EXCEPT ![u] = "collect"]
                   /\ UNCHANGED <<job_status, registry, exc_info, worker_job,
                                  attrs, elapsed_time>>
              ELSE /\ HorseRaise(u, "infrastructure")
                   /\ hist' = [InfraSeen(u, ok) EXCEPT ![u].watchdog = TRUE]
                   /\ UNCHANGED <<container, attrs, elapsed_time>>
       ELSE \* container.reload(); if container.status == "exited": break
            IF ok /\ container[u].st # "absent"
              THEN /\ attrs' = [attrs EXCEPT ![u] = container[u]]
                   /\ IF container[u].st = "exited"
                        THEN /\ hpc' = [hpc EXCEPT ![u] = "collect"]
                             /\ UNCHANGED elapsed_time
                        ELSE \* time.sleep(2)
                             /\ elapsed_time' = [elapsed_time EXCEPT ![u] =
                                   IF @ + PollInterval > MaxElapsed THEN MaxElapsed
                                   ELSE @ + PollInterval]
                             /\ UNCHANGED hpc
                   /\ UNCHANGED <<job_status, registry, exc_info, worker_job,
                                  container, hist>>
              ELSE /\ HorseRaise(u, "infrastructure")
                   /\ hist' = InfraSeen(u, ok)
                   /\ UNCHANGED <<container, attrs, elapsed_time>>
  /\ UNCHANGED <<queue, job_result, stop_cmds, func_timeout, log_lines, apc,
                 a_status, abort_ret, a_early, a_raised, planVars, storeVars, sysVars>>

\* exit_code = container.attrs["State"]["ExitCode"]; the logs are read:
\* stderr and raise when exit_code != 0, else stdout and stderr
HorseCollect(u, ok) ==
  /\ hpc[u] = "collect"
  /\ hist' = InfraSeen(u, ok)
  /\ IF attrs[u].code # 0
       THEN /\ HorseRaise(u, IF ok /\ container[u].st # "absent"
                               THEN "execution_failed" ELSE "infrastructure")
            /\ UNCHANGED log_lines
       ELSE IF ok /\ container[u].st # "absent"
              THEN /\ log_lines' = [log_lines EXCEPT ![u] = Split(hist[u].out)]
                   /\ hpc' = [hpc EXCEPT ![u] = "remove"]
                   /\ UNCHANGED <<job_status, registry, exc_info, worker_job>>
              ELSE /\ HorseRaise(u, "infrastructure")
                   /\ UNCHANGED log_lines
  /\ UNCHANGED <<queue, job_result, stop_cmds, container, attrs, elapsed_time,
                 func_timeout, apc, a_status, abort_ret, a_early, a_raised, planVars, storeVars, sysVars>>

\* container.remove()
HorseRemove(u, ok) ==
  /\ hpc[u] = "remove"
  /\ hist' = InfraSeen(u, ok)
  /\ IF ok /\ container[u].st = "exited"
       THEN /\ container' = [container EXCEPT ![u] = NoContainer]
            /\ hpc' = [hpc EXCEPT ![u] = "return"]
            /\ UNCHANGED <<job_status, registry, exc_info, worker_job>>
       ELSE /\ HorseRaise(u, "infrastructure")
            /\ UNCHANGED container
  /\ UNCHANGED <<queue, job_result, stop_cmds, attrs, elapsed_time,
                 func_timeout, log_lines, apc, a_status, abort_ret, a_early, a_raised,
                 planVars, storeVars, sysVars>>

\* return log_lines[-2] if log_lines[-1] == "" else log_lines[-1]
HorseReturn(u) ==
  /\ hpc[u] = "return"
  /\ IF LastLineRaises(log_lines[u])
       THEN /\ HorseRaise(u, "index_error")
            /\ UNCHANGED job_result
       ELSE /\ HorseFinish(u, LastLine(log_lines[u]))
            /\ UNCHANGED exc_info
  /\ UNCHANGED <<queue, stop_cmds, container, attrs, elapsed_time,
                 func_timeout, log_lines, apc, a_status, abort_ret, a_early, a_raised,
                 hist, planVars, storeVars, sysVars>>

\* the script in the container ends by itself
ContainerExit(u, code, log) ==
  /\ container[u].st = "running"
  /\ Ended(u, code)
  /\ hist' = [hist EXCEPT ![u].exited = code, ![u].out = log]
  /\ UNCHANGED <<job_status, registry, queue, job_result, exc_info,
                 worker_job, stop_cmds, hpc, attrs, elapsed_time,
                 func_timeout, log_lines, apc, a_status, abort_ret, a_early, a_raised,
                 planVars, storeVars, sysVars>>

\* the worker receives a stop-job command: if it is executing that job it
\* kills its horse and the job becomes stopped; otherwise it ignores it
WorkerStopJob(w, u) ==
  /\ <<w, u>> \in stop_cmds
  /\ stop_cmds' = stop_cmds \ {<<w, u>>}
  /\ IF worker_job[w] = u
       THEN /\ hpc' = [hpc EXCEPT ![u] = "killed"]
            /\ job_status' = [job_status EXCEPT ![u] = "stopped"]
            /\ registry' = [registry EXCEPT ![u] = "failed"]
            /\ exc_info' = [exc_info EXCEPT ![u] = "stopped"]
            /\ worker_job' = [worker_job EXCEPT ![w] = None]
       ELSE UNCHANGED <<hpc, job_status, registry, exc_info, worker_job>>
  /\ UNCHANGED <<queue, job_result, container, attrs, elapsed_time,
                 func_timeout, log_lines, apc, a_status, abort_ret, a_early, a_raised,
                 hist, planVars, storeVars, sysVars>>


(***************************************************************************)
(* abort_action(user_id, action_id), one store or runtime call per step    *)
(***************************************************************************)
\* `return True` / `except Exception: ... return False`
AbortReturn(u, r, ok) ==
  /\ abort_ret' = [abort_ret EXCEPT ![u] = r]
  /\ apc' = [apc EXCEPT ![u] = "idle"]
  /\ hist' = [InfraSeen(u, ok) EXCEPT
                ![u].cancel_ok = @ \/ (r = "true"),
                ![u].early = IF a_early[u] /\ @ = "no" THEN r ELSE @]

\* mutant of AbortExcept: the handler swallows the exception and the method
\* goes on to `return True`
AbortExceptSwallowed(u, ok) ==
  /\ a_raised' = [a_raised EXCEPT ![u] = TRUE]
  /\ AbortReturn(u, "true", ok)

\* a step raises: `except Exception as e: ... return False`
AbortExcept(u, ok) ==
  /\ a_raised' = [a_raised EXCEPT ![u] = TRUE]
  /\ AbortReturn(u, "false", ok)

\* job_ids = self._get_all_job_ids(user_id); Job.fetch; job.get_status()
AbortFetch(u) ==
  /\ apc[u] = "idle"
  /\ a_early' = [a_early EXCEPT ![u] = (hpc[u] = "run")]
  /\ IF InJobIds(u)
       THEN /\ a_status' = [a_status EXCEPT ![u] = job_status[u]]
            /\ apc' = [apc EXCEPT ![u] = "act"]
            /\ a_raised' = [a_raised EXCEPT ![u] = FALSE]
            /\ UNCHANGED <<abort_ret, hist>>
       ELSE \* raise ValueError("Job not found in user's queue.")
            /\ a_raised' = [a_raised EXCEPT ![u] = TRUE]
            /\ abort_ret' = [abort_ret EXCEPT ![u] = "false"]
            /\ UNCHANGED <<a_status, apc, hist>>
  /\ UNCHANGED <<job_status, registry, queue, job_result, exc_info,
                 worker_job, stop_cmds, container, hpc, attrs, elapsed_time,
                 func_timeout, log_lines, planVars, storeVars, sysVars>>

\* if job_status == "queued": job.cancel()
\* else: send_stop_job_command(self.redis, action_id)
AbortAct(u, refused) ==
  /\ apc[u] = "act"
  /\ IF a_status[u] = "queued"
       THEN \* the job is removed from its queue and marked canceled
            /\ job_status' = [job_status EXCEPT ![u] = "canceled"]
            /\ queue' = Without(queue, u)
            /\ registry' = [registry EXCEPT ![u] =
                              IF InQueue(u) THEN "canceled" ELSE @]
            /\ apc' = [apc EXCEPT ![u] = "get"]
            /\ UNCHANGED <<stop_cmds, abort_ret, a_raised, hist>>
       ELSE IF \E w \in Workers : worker_job[w] = u
              THEN \* the command goes to the worker executing the job
                   /\ stop_cmds' = stop_cmds \cup
                                   {<<w, u>> : w \in {x \in Workers : worker_job[x] = u}}
                   /\ apc' = [apc EXCEPT ![u] = "get"]
                   /\ UNCHANGED <<job_status, queue, registry, abort_ret,
                                  a_raised, hist>>
              ELSE \* no worker is executing the job: the store refuses the
                   \* command, or delivers it to a worker that ignores it
                   /\ IF refused THEN AbortExcept(u, TRUE)
                      ELSE /\ apc' = [apc EXCEPT ![u] = "get"]
                           /\ UNCHANGED <<abort_ret, a_raised, hist>>
                   /\ UNCHANGED <<job_status, queue, registry, stop_cmds>>
  /\ UNCHANGED <<job_result, exc_info, worker_job, container, hpc, attrs,
                 elapsed_time, func_timeout, log_lines, a_status, a_early,
                 planVars, storeVars, sysVars>>

\* container = client.containers.get(action_id)
AbortGet(u, ok) ==
  /\ apc[u] = "get"
  /\ IF ok /\ container[u].st # "absent"
       THEN /\ apc' = [apc EXCEPT ![u] = "kill"]
            /\ UNCHANGED <<abort_ret, a_raised, hist>>
       ELSE AbortExcept(u, ok)
  /\ UNCHANGED <<job_status, registry, queue, job_result, exc_info,
                 worker_job, stop_cmds, container, hpc, attrs, elapsed_time,
                 func_timeout, log_lines, a_status, a_early, planVars, storeVars, sysVars>>

\* container.kill(): refused unless the container is running
AbortKill(u, ok) ==
  /\ apc[u] = "kill"
  /\ IF ok /\ container[u].st = "running"
       THEN /\ Ended(u, KilledCode)
            /\ apc' = [apc EXCEPT ![u] = "remove"]
            /\ \E log \in Logs :
                 hist' = [hist EXCEPT ![u].exited = KilledCode, ![u].out = log]
            /\ UNCHANGED <<abort_ret, a_raised>>
       ELSE /\ AbortExcept(u, ok)
            /\ UNCHANGED container
  /\ UNCHANGED <<job_status, registry, queue, job_result, exc_info,
                 worker_job, stop_cmds, hpc, attrs, elapsed_time,
                 func_timeout, log_lines, a_status, a_early, planVars, storeVars, sysVars>>

\* mutant of AbortRemove: True is returned without container.remove()
AbortRemoveForgotten(u, ok) ==
  /\ apc[u] = "remove"
  /\ AbortReturn(u, "true", TRUE)
  /\ UNCHANGED a_raised
  /\ UNCHANGED <<job_status, registry, queue, job_result, exc_info,
                 worker_job, stop_cmds, container, hpc, attrs, elapsed_time,
                 func_timeout, log_lines, a_status, a_early, planVars, storeVars, sysVars>>

\* container.remove(); return True
AbortRemove(u, ok) ==
  /\ apc[u] = "remove"
  /\ IF ok /\ container[u].st = "exited"
       THEN /\ container' = [container EXCEPT ![u] = NoContainer]
            /\ AbortReturn(u, "true", TRUE)
            /\ UNCHANGED a_raised
       ELSE /\ AbortExcept(u, ok)
            /\ UNCHANGED container
  /\ UNCHANGED <<job_status, registry, queue, job_result, exc_info,
                 worker_job, stop_cmds, hpc, attrs, elapsed_time,
                 func_timeout, log_lines, a_status, a_early, planVars, storeVars, sysVars>>

(***************************************************************************)
(* The life cycle of the units                                             *)
(***************************************************************************)
Init == LifeIdle /\ PlanIdle /\ StoreIdle /\ SysIdle

Next ==
  \/ \E u \in Units, t \in FuncTimeouts : Submit(u, t)
  \/ \E w \in Workers, u \in Units : PickUp(w, u)
  \/ \E u \in Units, ok \in BOOLEAN : HorseRun(u, ok)
  \/ \E u \in Units, ok \in BOOLEAN : HorsePoll(u, ok)
  \/ \E u \in Units, ok \in BOOLEAN : HorseCollect(u, ok)
  \/ \E u \in Units, ok \in BOOLEAN : HorseRemove(u, ok)
  \/ \E u \in Units : HorseReturn(u)
  \/ \E u \in Units, code \in ExitCodes, log \in Logs : ContainerExit(u, code, log)
  \/ \E w \in Workers, u \in Units : WorkerStopJob(w, u)
  \/ \E u \in Units : AbortFetch(u)
  \/ \E u \in Units, refused \in BOOLEAN : AbortAct(u, refused)
  \/ \E u \in Units, ok \in BOOLEAN : AbortGet(u, ok)
  \/ \E u \in Units, ok \in BOOLEAN : AbortKill(u, ok)
  \/ \E u \in Units, ok \in BOOLEAN : AbortRemove(u, ok)

Spec == Init /\ [][Next]_vars


(***************************************************************************)
(* The life cycle with the hard job timeout of the work store and with     *)
(* crashes of workers.  RQ arms an alarm in the work horse for every job   *)
(* (job_timeout="72h" for the units of create_docker_action, the default   *)
(* of the queue otherwise): when it rings, JobTimeoutException is raised   *)
(* inside the running function.  The started-job registry drops a job      *)
(* whose worker stopped sending heartbeats and marks it failed; the        *)
(* clean-up runs with the maintenance of every worker and with every       *)
(* listing of the registry (_get_all_job_ids).                             *)
(***************************************************************************)
\* the positions of a work horse inside dockerized_func
HorseStates == {"run", "poll", "collect", "remove", "return"}

\* mutant of JobTimeoutReached: the job is enqueued without a timeout
JobTimeoutNever(elapsed) == FALSE

\* job_timeout="72h": the longest time the model measures stands for it
JobTimeoutReached(elapsed) == elapsed >= MaxElapsed

\* the alarm rings: JobTimeoutException leaves dockerized_func, which has no
\* try/except around the polling loop
JobTimeout(u) ==
  /\ hpc[u] \in HorseStates
  /\ JobTimeoutReached(elapsed_time[u])
  /\ HorseRaise(u, "job_timeout")
  /\ UNCHANGED <<queue, job_result, stop_cmds, container, attrs, elapsed_time,
                 func_timeout, log_lines, apc, a_status, abort_ret, a_early,
                 a_raised, hist, planVars, storeVars, sysVars>>

\* the worker and its horse die while executing u (SIGKILL, out of memory,
\* host failure): nothing is written to the store
WorkerCrash(w, u) ==
  /\ worker_job[w] = u
  /\ hpc[u] \in HorseStates
  /\ hpc' = [hpc EXCEPT ![u] = "crashed"]
  /\ worker_job' = [worker_job EXCEPT ![w] = "dead"]
  /\ UNCHANGED <<job_status, registry, queue, job_result, exc_info, stop_cmds,
                 container, attrs, elapsed_time, func_timeout, log_lines, apc,
                 a_status, abort_ret, a_early, a_raised, hist, planVars,
                 storeVars, sysVars>>

\* StartedJobRegistry.cleanup(): the abandoned job is moved to the failed
\* registry and marked failed
CleanRegistry(u) ==
  /\ hpc[u] = "crashed"
  /\ registry[u] = "started"
  /\ registry' = [registry EXCEPT ![u] = "failed"]
  /\ job_status' = [job_status EXCEPT ![u] = "failed"]
  /\ exc_info' = [exc_info EXCEPT ![u] = "abandoned"]
  /\ UNCHANGED <<queue, job_result, worker_job, stop_cmds, container, hpc,
                 attrs, elapsed_time, func_timeout, log_lines, apc, a_status,
                 abort_ret, a_early, a_raised, hist, planVars, storeVars,
                 sysVars>>

NextFair ==
  \/ Next
  \/ \E u \in Units : JobTimeout(u)
  \/ \E w \in Workers, u \in Units : WorkerCrash(w, u)
  \/ \E u \in Units : CleanRegistry(u)

\* the work horse keeps running while it lives (a polling iteration that
\* succeeds, either outcome of the other calls), the alarm rings and the
\* registry is cleaned; nothing makes a container exit, an abort_action be
\* called or a Docker call fail
Fairness ==
  \A u \in Units :
    /\ WF_vars(\E ok \in BOOLEAN : HorseRun(u, ok))
    /\ WF_vars(HorsePoll(u, TRUE))
    /\ WF_vars(\E ok \in BOOLEAN : HorseCollect(u, ok))
    /\ WF_vars(\E ok \in BOOLEAN : HorseRemove(u, ok))
    /\ WF_vars(HorseReturn(u))
    /\ WF_vars(JobTimeout(u))
    /\ WF_vars(CleanRegistry(u))

SpecFair == Init /\ [][NextFair]_vars /\ Fairness


(***************************************************************************)
(* create_docker_action: the chunk planner and the enqueue loop            *)
(***************************************************************************)
Durations == 1..MaxDur
TrackDurationCaps == -1..MaxDur          \* max_track_duration
ChunkDurationCaps == -1..(MaxDur + 1)    \* max_chunk_duration

\* track.get_meta("title"): tracks 1 and 3 of the library bear the same title
Title(i) == IF i % 2 = 1 THEN "s" ELSE "t"

\* self.server_config.chunk_actions and not run_without_target
\*   and run_without_target is False and gpu is True
Chunking == chunk_actions /\ ~run_without_target /\ gpu

\* mutant of TooLong: the test `max_track_duration > 0` is forgotten
TooLongUnguarded(duration, cap) == duration > cap

\* mutant of Fits: the duration of the track is not added before the test
FitsBeforeAdding(cd, duration, cap) == cap > 0 /\ cd <= cap

\* max_track_duration > 0 and duration > max_track_duration
TooLong(duration, cap) == cap > 0 /\ duration > cap

\* max_chunk_duration > 0. and (chunk_duration + duration <= max_chunk_duration)
Fits(cd, duration, cap) == cap > 0 /\ cd + duration <= cap

\* add_collection(name=..., track_ids=ids, collection_type="temp")
TempCollection(ids) == [kind |-> "temp", track_ids |-> ids]

AllTracks == [i \in 1..Len(tracks) |-> i]

InitPlan ==
  /\ LifeIdle
  /\ StoreIdle
  /\ SysIdle
  /\ ppc = "start"
  /\ target_type \in {"track", "collection", "none"}
  /\ tracks \in UNION {[1..n -> Durations] : n \in 0..MaxTracks}
  /\ target_type = "track" => Len(tracks) = 1
  /\ max_track_duration \in TrackDurationCaps
  /\ max_chunk_duration \in ChunkDurationCaps
  /\ chunk_actions \in BOOLEAN
  /\ run_without_target \in BOOLEAN
  /\ gpu \in BOOLEAN
  /\ k = 1
  /\ target_collections = <<>>
  /\ chunk_duration = 0
  /\ chunk_nr = 0
  /\ skipped_tracks = <<>>
  /\ actions = <<>>
  /\ param_type = None
  /\ perr = None
  /\ ret = -1

\* the error create_docker_action ends with when a call of the library or of
\* the work store raises
Infrastructure == "infrastructure"

\* raise Exception(f"Unsupported parameter type: ...")
UnsupportedParameterType == "unsupported_parameter_type"

\* type(value) of the script parameter passed in kwargs
ParamTypes == {"bool", "str", "float", "int", "uuid", "list", "dict"}

\* mutant of CommandForm: a value of any other type is written as `--k=v`
CommandFormLenient(t) ==
  IF t = "bool" THEN "--k"
  ELSE IF t = "str" THEN "--k=\"v\""
  ELSE IF t = "list" THEN "--k v1 v2"
  ELSE "--k=v"

\* _generate_command: how a value of type t is written on the command line
CommandForm(t) ==
  IF t = "bool" THEN "--k"
  ELSE IF t = "str" THEN "--k=\"v\""
  ELSE IF t \in {"float", "int", "uuid"} THEN "--k=v"
  ELSE IF t = "list" THEN "--k v1 v2"
  ELSE "raise"

\* mutant of UnchunkedTarget: the temporary collection of a submission
\* without target is created without the tracks of the library
UnchunkedTargetNoTracks ==
  IF target_type = "track" THEN TempCollection(<<1>>)
  ELSE IF target_type = "collection"
    THEN [kind |-> "collection", track_ids |-> AllTracks]
  ELSE IF ~run_without_target THEN TempCollection(<<>>)
  ELSE [kind |-> "empty", track_ids |-> <<>>]

\* lines 406-426: the one target collection of a submission that is not chunked
UnchunkedTarget ==
  IF target_type = "track" THEN TempCollection(<<1>>)
  ELSE IF target_type = "collection"
    THEN [kind |-> "collection", track_ids |-> AllTracks]
  ELSE IF ~run_without_target THEN TempCollection(AllTracks)
  ELSE [kind |-> "empty", track_ids |-> <<>>]

\* mutant of CollectionOfUnit: the loop passes the last chunk created
CollectionOfUnitStale(i) == Len(target_collections)

\* enumerate(target_collections): unit i (from 0) gets the collection at
\* position i + 1
CollectionOfUnit(i) == i + 1

\* an exception leaves create_docker_action: nothing is undone
Raise(e) ==
  /\ ppc' = "failed"
  /\ perr' = e

\* lines 312-373 and 406-426: everything before the loop over the tracks;
\* ok is FALSE when a call of the library raises (get_track_or_collection,
\* tracks(), get_tracks or add_collection)
PlanStart(ok) ==
  /\ ppc = "start"
  /\ IF ~ok
       THEN /\ Raise(Infrastructure)
            /\ UNCHANGED <<target_collections, skipped_tracks>>
       ELSE
       /\ UNCHANGED perr
       /\ IF Chunking
            THEN IF target_type = "track"
              THEN \* create a single chunk with the track in it
                   /\ skipped_tracks' = IF TooLong(tracks[1], max_track_duration)
                                          THEN <<Title(1)>> ELSE <<>>
                   /\ target_collections' =
                        << TempCollection(IF TooLong(tracks[1], max_track_duration)
                                            THEN <<>> ELSE <<1>>) >>
                   /\ ppc' = "enqueue"
              ELSE \* the first chunk of the collection or of the library
                   /\ target_collections' = << TempCollection(<<>>) >>
                   /\ skipped_tracks' = <<>>
                   /\ ppc' = IF tracks = <<>> THEN "enqueue" ELSE "loop"
            ELSE /\ skipped_tracks' = <<>>
                 /\ ppc' = "enqueue"
                 /\ target_collections' = << UnchunkedTarget >>
  /\ chunk_duration' = 0
  /\ chunk_nr' = 0
  /\ k' = 1
  /\ UNCHANGED <<target_type, tracks, max_track_duration, max_chunk_duration,
                 chunk_actions, run_without_target, gpu, actions, param_type,
                 ret, lifeVars, storeVars, sysVars>>

\* lines 374-405: one iteration of `for track in tracks:`; ok is FALSE when
\* a call of the library raises (get_meta, add_track_to_collection or
\* add_collection)
PlanTrack(ok) ==
  /\ ppc = "loop"
  /\ IF ~ok
       THEN /\ Raise(Infrastructure)
            /\ UNCHANGED <<target_collections, skipped_tracks, chunk_duration,
                           chunk_nr, k>>
       ELSE
       /\ UNCHANGED perr
       /\ LET duration == tracks[k]
              last == Len(target_collections)
          IN IF TooLong(duration, max_track_duration)
               THEN /\ skipped_tracks' = Append(skipped_tracks, Title(k))
                    /\ UNCHANGED <<target_collections, chunk_duration, chunk_nr>>
               ELSE /\ UNCHANGED skipped_tracks
                    /\ IF Fits(chunk_duration, duration, max_chunk_duration)
                         THEN \* if it fits, append to last chunk
                              /\ target_collections' =
                                   [target_collections EXCEPT ![last].track_ids =
                                      Append(@, k)]
                              /\ chunk_duration' = chunk_duration + duration
                              /\ UNCHANGED chunk_nr
                         ELSE \* otherwise create new chunk
                              /\ chunk_nr' = chunk_nr + 1
                              /\ target_collections' =
                                   Append(target_collections, TempCollection(<<>>))
                              /\ chunk_duration' = 0
       /\ k' = k + 1
       /\ ppc' = IF k = Len(tracks) THEN "enqueue" ELSE "loop"
  /\ UNCHANGED <<target_type, tracks, max_track_duration, max_chunk_duration,
                 chunk_actions, run_without_target, gpu, actions, param_type,
                 ret, lifeVars, storeVars, sysVars>>

\* queue = gpu_queue if gpu else cpu_queue: chosen once, before the loop
UnitQueue == IF gpu THEN "gpu" ELSE "cpu"

\* f"Skipped {track}: Too long."
SkippedError(title) == <<"Skipped ", title, ": Too long.">>

\* mutant of SkippedErrors: only the first skipped track is reported
SkippedErrorsFirstOnly(skipped) ==
  IF skipped = <<>> THEN <<>> ELSE << SkippedError(skipped[1]) >>

\* [f"Skipped {track}: Too long." for track in skipped_tracks]
SkippedErrors(skipped) ==
  [j \in 1..Len(skipped) |-> SkippedError(skipped[j])]

\* mutant of Returned: the id of the first unit is returned
ReturnedFirst(acts) == acts[1].job

\* return action.id: `action` is the unit of the last iteration
Returned(acts) == acts[Len(acts)].job

\* what the calls of the work store do in one iteration of the enqueue loop
EnqueueOutcomes == {"ok", "enqueue_raises", "save_meta_raises"}

\* lines 429-459: one iteration of `for i, collection_id in enumerate(...)`:
\* _generate_command, queue.enqueue, action.save_meta.  t is the type of the
\* script parameter in kwargs, the same in every iteration.
EnqueueAction(t, outcome) ==
  /\ ppc = "enqueue"
  /\ Len(actions) < Len(target_collections)
  /\ param_type \in {None, t}
  /\ param_type' = t
  /\ LET i == Len(actions)
         action == [job |-> i, target |-> CollectionOfUnit(i),
                    queue |-> UnitQueue,
                    command |-> CommandForm(t), errors |-> <<>>]
     IN IF CommandForm(t) = "raise"
          THEN /\ Raise(UnsupportedParameterType)
               /\ UNCHANGED actions
          ELSE IF outcome = "enqueue_raises"
            THEN /\ Raise(Infrastructure)
                 /\ UNCHANGED actions
          ELSE /\ actions' = Append(actions, action)
               /\ IF outcome = "save_meta_raises"
                    THEN Raise(Infrastructure)
                    ELSE UNCHANGED <<ppc, perr>>
  /\ UNCHANGED <<target_type, tracks, max_track_duration,
                 max_chunk_duration, chunk_actions, run_without_target, gpu,
                 k, target_collections, chunk_duration, chunk_nr,
                 skipped_tracks, ret, lifeVars, storeVars, sysVars>>

\* lines 460-466: the skipped tracks go to the last action's meta; ok is
\* FALSE when save_meta raises
SaveErrors(ok) ==
  /\ ppc = "enqueue"
  /\ Len(actions) = Len(target_collections)
  /\ IF ok
       THEN /\ actions' = [actions EXCEPT ![Len(actions)].errors =
                                          SkippedErrors(skipped_tracks)]
            /\ ret' = Returned(actions)
            /\ ppc' = "done"
            /\ UNCHANGED perr
       ELSE /\ Raise(Infrastructure)
            /\ UNCHANGED <<actions, ret>>
  /\ UNCHANGED <<target_type, tracks, max_track_duration, max_chunk_duration,
                 chunk_actions, run_without_target, gpu, k,
                 target_collections, chunk_duration, chunk_nr,
                 skipped_tracks, param_type, lifeVars, storeVars, sysVars>>

NextPlan ==
  \/ \E ok \in BOOLEAN : PlanStart(ok)
  \/ \E ok \in BOOLEAN : PlanTrack(ok)
  \/ \E t \in ParamTypes, outcome \in EnqueueOutcomes : EnqueueAction(t, outcome)
  \/ \E ok \in BOOLEAN : SaveErrors(ok)

SpecPlan == InitPlan /\ [][NextPlan]_vars


(***************************************************************************)
(* The work store of several users: get_action_status and the store steps  *)
(* that move a job between the queue and the registries                    *)
(***************************************************************************)
\* what _get_all_job_ids reads of a queue: queue.job_ids and the started,
\* deferred, finished, failed and scheduled registries (no job of the
\* program is ever deferred or scheduled)
ReadPlaces == {"queue", "started", "finished", "failed"}

\* get_user_queues(user_id): the gpu queue is None unless use_gpu
UserQueues(user) ==
  {QueueOf(user, "cpu")} \cup (IF use_gpu THEN {QueueOf(user, "gpu")} ELSE {})

\* mutant of JobIdsOf: the queues of every user are read
JobIdsOfAnyUser(user) == {j \in Jobs : s_place[j] \in ReadPlaces}

\* _get_all_job_ids(user_id)
JobIdsOf(user) ==
  {j \in Jobs : s_queue[j] \in UserQueues(user) /\ s_place[j] \in ReadPlaces}

InitStore ==
  /\ LifeIdle
  /\ PlanIdle
  /\ SysIdle
  /\ use_gpu \in BOOLEAN
  /\ s_queue = [j \in Jobs |-> NoQueue]
  /\ s_place = [j \in Jobs |-> None]
  /\ s_status = [j \in Jobs |-> None]
  /\ reply = NoReply
  /\ submitted = NoSubmit
  /\ s_container = [j \in Jobs |-> FALSE]
  /\ abort_reply = NoReply

\* a job moves to the place and the status given
Moved(j, place, status) ==
  /\ s_place' = [s_place EXCEPT ![j] = place]
  /\ s_status' = [s_status EXCEPT ![j] = status]
  /\ reply' = NoReply

\* create_docker_action: gpu = gpu and use_gpu; queue = gpu_queue if gpu else
\* cpu_queue; queue.enqueue(..., job_id=f"{job_id}_{i}") with a fresh job id
StoreEnqueue(user, gpu_asked, j) ==
  /\ s_status[j] = None
  /\ s_queue' = [s_queue EXCEPT ![j] =
                   QueueOf(user, IF gpu_asked /\ use_gpu THEN "gpu" ELSE "cpu")]
  /\ Moved(j, "queue", "queued")
  /\ submitted' = [user |-> user, gpu |-> gpu_asked, path |-> "container",
                   job |-> j, err |-> None]
  /\ abort_reply' = NoReply
  /\ UNCHANGED <<use_gpu, s_container, lifeVars, planVars, sysVars>>

\* create_action, lines 268-269: cpu_queue, gpu_queue = get_user_queues(...);
\* queue = gpu_queue if gpu else cpu_queue (None when gpu without use_gpu)
PlainQueue(user, gpu_asked) ==
  IF ~gpu_asked THEN QueueOf(user, "cpu")
  ELSE IF use_gpu THEN QueueOf(user, "gpu")
  ELSE NoQueue

\* create_action(user_id, action_name, gpu, func): queue.enqueue(func, ...)
\* raises AttributeError when queue is None
CreateAction(user, gpu_asked, j) ==
  /\ s_status[j] = None
  /\ IF PlainQueue(user, gpu_asked) = NoQueue
       THEN /\ submitted' = [user |-> user, gpu |-> gpu_asked, path |-> "plain",
                             job |-> None, err |-> "attribute_error"]
            /\ reply' = NoReply
            /\ UNCHANGED <<s_queue, s_place, s_status>>
       ELSE /\ s_queue' = [s_queue EXCEPT ![j] = PlainQueue(user, gpu_asked)]
            /\ Moved(j, "queue", "queued")
            /\ submitted' = [user |-> user, gpu |-> gpu_asked, path |-> "plain",
                             job |-> j, err |-> None]
  /\ abort_reply' = NoReply
  /\ UNCHANGED <<use_gpu, s_container, lifeVars, planVars, sysVars>>

\* a worker of the queue dequeues the job and dockerized_func starts the
\* container named after it
StoreStart(j) ==
  /\ s_status[j] = "queued"
  /\ Moved(j, "started", "started")
  /\ s_container' = [s_container EXCEPT ![j] = TRUE]
  /\ submitted' = NoSubmit
  /\ abort_reply' = NoReply
  /\ UNCHANGED <<use_gpu, s_queue, lifeVars, planVars, sysVars>>

\* dockerized_func returns after container.remove() (finished) or raises
\* and leaves the container (failed)
StoreEnd(j, status) ==
  /\ s_status[j] = "started"
  /\ Moved(j, status, status)
  /\ s_container' = [s_container EXCEPT ![j] = (status = "failed")]
  /\ submitted' = NoSubmit
  /\ abort_reply' = NoReply
  /\ UNCHANGED <<use_gpu, s_queue, lifeVars, planVars, sysVars>>

\* abort_action(user_id, action_id) returns r; nothing but the reply changes
AbortReplies(user, j, r) ==
  /\ abort_reply' = [user |-> user, unit |-> j, out |-> r]
  /\ reply' = NoReply

\* lines 524-529 after the store step moved j: containers.get raises when no
\* container bears the name, kill and remove succeed on a running one
AbortContainer(user, j, running) ==
  /\ abort_reply' = [user |-> user, unit |-> j,
                     out |-> IF running THEN "true" ELSE "false"]
  /\ s_container' = [s_container EXCEPT ![j] = FALSE]

\* mutant of AbortActionStore: the test `action_id in job_ids` is left out
AbortActionStoreUnchecked(user, j) ==
  /\ IF s_status[j] = "queued"
       THEN /\ Moved(j, "canceled", "canceled")
            /\ AbortContainer(user, j, FALSE)
       ELSE IF s_status[j] = "started"
         THEN /\ Moved(j, "failed", "stopped")
              /\ AbortContainer(user, j, s_container[j])
       ELSE /\ AbortReplies(user, j, "false")
            /\ UNCHANGED <<s_place, s_status, s_container>>
  /\ submitted' = NoSubmit
  /\ UNCHANGED <<use_gpu, s_queue, lifeVars, planVars, sysVars>>

\* abort_action(user_id, action_id): a job that is not among the user's job
\* ids raises ValueError before anything is done; job.cancel() moves a
\* queued job to the canceled registry; the stop command makes the worker
\* move a started job to the failed registry as stopped and is refused for
\* a job that is not executing; then the container is killed and removed
AbortActionStore(user, j) ==
  /\ IF j \notin JobIdsOf(user)
       THEN /\ AbortReplies(user, j, "false")
            /\ UNCHANGED <<s_place, s_status, s_container>>
       ELSE IF s_status[j] = "queued"
         THEN /\ Moved(j, "canceled", "canceled")
              /\ AbortContainer(user, j, FALSE)
       ELSE IF s_status[j] = "started"
         THEN /\ Moved(j, "failed", "stopped")
              /\ AbortContainer(user, j, s_container[j])
       ELSE /\ AbortReplies(user, j, "false")
            /\ UNCHANGED <<s_place, s_status, s_container>>
  /\ submitted' = NoSubmit
  /\ UNCHANGED <<use_gpu, s_queue, lifeVars, planVars, sysVars>>

\* get_action_status(user_id, action_id): None when the id is not among
\* the user's job ids, else the record of the job
GetActionStatus(user, j) ==
  /\ reply' = [user |-> user, unit |-> j,
               out |-> IF j \in JobIdsOf(user) THEN s_status[j]
                       ELSE "not_found"]
  /\ submitted' = NoSubmit
  /\ abort_reply' = NoReply
  /\ UNCHANGED <<use_gpu, s_queue, s_place, s_status, s_container, lifeVars,
                 planVars, sysVars>>

NextStore ==
  \/ \E user \in Users, gpu_asked \in BOOLEAN, j \in Jobs :
       StoreEnqueue(user, gpu_asked, j)
  \/ \E user \in Users, gpu_asked \in BOOLEAN, j \in Jobs :
       CreateAction(user, gpu_asked, j)
  \/ \E j \in Jobs : StoreStart(j)
  \/ \E j \in Jobs, status \in {"finished", "failed"} : StoreEnd(j, status)
  \/ \E user \in Users, j \in Jobs : AbortActionStore(user, j)
  \/ \E user \in Users, j \in Jobs : GetActionStatus(user, j)

SpecStore == InitStore /\ [][NextStore]_vars


(***************************************************************************)
(* dockerized_func, lines 76-95: the environment of the container          *)
(***************************************************************************)
\* keys dockerized_func sets itself (three of the sixteen of lines 77-92)
EngineKeys == {"USER_ID", "USE_GPU", "LOG_LEVEL"}

\* the keys a caller may pass: the engine's and one of its own
EnvKeys == EngineKeys \cup {"HF_TOKEN"}
CallerValues == {"caller_1", "caller_2"}

\* env_vars = {"LIBRARY_PLUGIN": cfg.container_library_plugin, ...}
EngineEnv == [key \in EngineKeys |-> "engine"]

\* dict.update: the entries of `other` are added to `map` and replace those
\* of the same key
Update(map, other) ==
  [key \in DOMAIN map \cup DOMAIN other |->
     IF key \in DOMAIN other THEN other[key] ELSE map[key]]

InitEnv ==
  /\ LifeIdle
  /\ PlanIdle
  /\ StoreIdle
  /\ env_given \in BOOLEAN
  /\ env \in UNION {[keys -> CallerValues] : keys \in SUBSET EnvKeys}
  /\ ~env_given => env = EmptyMap
  /\ env_vars = EmptyMap
  /\ epc = "build"
  /\ PoolIdle
  /\ ElectIdle
  /\ DispIdle
  /\ AuxIdle

\* lines 76-95: env_vars = {...}; if env is not None: env_vars.update(env)
BuildEnv ==
  /\ epc = "build"
  /\ env_vars' = IF env_given THEN Update(EngineEnv, env) ELSE EngineEnv
  /\ epc' = "run"
  /\ UNCHANGED <<env, env_given, lifeVars, planVars, storeVars, poolVars,
                 electVars, dispVars, auxVars>>

NextEnv == BuildEnv

SpecEnv == InitEnv /\ [][NextEnv]_vars


(***************************************************************************)
(* The worker manager: spawn_cpu_workers, spawn_gpu_workers,               *)
(* init_queues_and_workers and the worker processes they start.  A process *)
(* started by subprocess.Popen appears in Worker.all() once it has         *)
(* registered in the work store; a shutdown command makes a worker quit    *)
(* when it is idle, after its current job when it is busy (warm shutdown). *)
(***************************************************************************)
NumUserCpuWorkers == 2     \* cfg.num_user_cpu_workers
NumGpuWorkers == 1         \* cfg.num_gpu_workers

\* a process started by `rq worker`: kind "cpu" (the queue of one user),
\* "gpu" (the gpu queues of the users known at the spawn) or "default" (no
\* queue name was passed: rq listens on its default queue)
Proc(kind, user, queues) ==
  [kind |-> kind, user |-> user, queues |-> queues, st |-> "spawned",
   shut |-> FALSE]

\* Worker.all(): the processes registered in the work store
Registered(i) == procs[i].st \in {"idle", "busy"}

Copies(n, x) == [i \in 1..n |-> x]

\* cfg.num_user_cpu_workers - len(existing_user_worker_pids); range() of
\* a negative number is empty
Missing(user) ==
  LET existing == Cardinality({i \in 1..Len(procs) :
                     /\ Registered(i)
                     /\ procs[i].kind = "cpu" /\ procs[i].user = user})
  IN IF existing >= NumUserCpuWorkers THEN 0
     ELSE NumUserCpuWorkers - existing

\* whether a process has been spawned and is not yet in Worker.all()
Unregistered == \E i \in 1..Len(procs) : procs[i].st = "spawned"

\* spawn_cpu_workers(user_id) applied to the processes ps
RECURSIVE CpuSpawned(_, _)
CpuSpawned(ps, users) ==
  IF users = {} THEN ps
  ELSE LET user == CHOOSE x \in users : TRUE
       IN CpuSpawned(ps \o Copies(Missing(user), Proc("cpu", user, {user})),
                     users \ {user})

\* _get_user_ids_from_cpu_workers(): queue_name[:36] of every queue of
\* every worker in Worker.all(); the prefix of "<uid>-gpu" is the uid
UserIdsFromWorkers ==
  UNION {procs[i].queues : i \in {n \in 1..Len(procs) : Registered(n)}}

\* spawn_gpu_workers(user_ids) applied to the processes ps, all of them
\* spawned before the call reads Worker.all().  Without user_ids the ids
\* are those of the registered workers.  Every registered worker with a
\* "-gpu" queue is sent the shutdown command, then num_gpu_workers processes
\* are started on the gpu queues of the ids; without any queue name rq
\* listens on its default queue.
GpuRespawned(ps, user_ids) ==
  LET ids == IF user_ids # {} THEN user_ids ELSE UserIdsFromWorkers
  IN [i \in 1..Len(ps) |->
        IF i <= Len(procs) /\ Registered(i) /\ ps[i].kind = "gpu"
          THEN [ps[i] EXCEPT !.shut = TRUE] ELSE ps[i]]
     \o Copies(NumGpuWorkers,
               IF ids # {} THEN Proc("gpu", None, ids)
               ELSE Proc("default", None, {"default"}))

InitPool ==
  /\ LifeIdle
  /\ PlanIdle
  /\ EnvIdle
  /\ use_gpu \in BOOLEAN
  /\ s_queue = [j \in Jobs |-> NoQueue]
  /\ s_place = [j \in Jobs |-> None]
  /\ s_status = [j \in Jobs |-> None]
  /\ reply = NoReply
  /\ submitted = NoSubmit
  /\ s_container = [j \in Jobs |-> FALSE]
  /\ abort_reply = NoReply
  /\ PoolIdle
  /\ ElectIdle
  /\ DispIdle
  /\ AuxIdle

\* the new list of processes is kept when it is within the bound
Spawned(ps) ==
  /\ Len(ps) <= MaxProcs
  /\ procs' = ps
  /\ raced' = (raced \/ (Unregistered /\ ps # procs))
  /\ UNCHANGED <<lifeVars, planVars, storeVars, envVars,
                 electVars, dispVars, auxVars>>

\* spawn_cpu_workers(user_id), as on_after_register calls it
SpawnCpuWorkers(user) ==
  /\ user \in Users
  /\ Spawned(CpuSpawned(procs, {user}))
  /\ UNCHANGED reg

\* spawn_gpu_workers(), as on_after_register calls it when use_gpu
SpawnGpuWorkers ==
  /\ use_gpu
  /\ Spawned(GpuRespawned(procs, {}))
  /\ UNCHANGED reg

\* init_queues_and_workers(user_ids)
InitQueuesAndWorkers(user_ids) ==
  /\ user_ids \subseteq Users
  /\ Spawned(IF use_gpu
              THEN GpuRespawned(CpuSpawned(procs, user_ids), user_ids)
              ELSE CpuSpawned(procs, user_ids))
  /\ UNCHANGED reg

\* on_after_register(user), lines 77-79: get_user_queues and
\* spawn_cpu_workers(str(user.id)); without use_gpu the handler is over
RegisterSpawnsCpu(user) ==
  /\ reg[user] = "no"
  /\ Spawned(CpuSpawned(procs, {user}))
  /\ reg' = [reg EXCEPT ![user] = IF use_gpu THEN "sleep" ELSE "done"]

\* on_after_register(user), lines 80-83: after time.sleep(2), during which
\* the processes just started may or may not have registered,
\* spawn_gpu_workers() without user ids
RegisterSpawnsGpu(user) ==
  /\ reg[user] = "sleep"
  /\ Spawned(GpuRespawned(procs, {}))
  /\ reg' = [reg EXCEPT ![user] = "done"]

\* a spawned process registers in the work store
WorkerRegisters(i) ==
  /\ i \in 1..Len(procs)
  /\ procs[i].st = "spawned"
  /\ procs' = [procs EXCEPT ![i].st = "idle"]
  /\ UNCHANGED <<raced, reg, lifeVars, planVars, storeVars, envVars,
                 electVars, dispVars, auxVars>>

\* an idle gpu worker that was not told to shut down dequeues a unit
WorkerTakes(i) ==
  /\ i \in 1..Len(procs)
  /\ procs[i].kind = "gpu" /\ procs[i].st = "idle" /\ ~procs[i].shut
  /\ procs' = [procs EXCEPT ![i].st = "busy"]
  /\ UNCHANGED <<raced, reg, lifeVars, planVars, storeVars, envVars,
                 electVars, dispVars, auxVars>>

\* the unit of a busy worker ends
WorkerDone(i) ==
  /\ i \in 1..Len(procs)
  /\ procs[i].st = "busy"
  /\ procs' = [procs EXCEPT ![i].st = "idle"]
  /\ UNCHANGED <<raced, reg, lifeVars, planVars, storeVars, envVars,
                 electVars, dispVars, auxVars>>

\* an idle worker that was told to shut down quits
WorkerQuits(i) ==
  /\ i \in 1..Len(procs)
  /\ procs[i].st = "idle" /\ procs[i].shut
  /\ procs' = [procs EXCEPT ![i] = [kind |-> @.kind, user |-> None,
                                    queues |-> {}, st |-> "dead",
                                    shut |-> FALSE]]
  /\ UNCHANGED <<raced, reg, lifeVars, planVars, storeVars, envVars,
                 electVars, dispVars, auxVars>>

NextPool ==
  \/ \E user \in Users : SpawnCpuWorkers(user)
  \/ SpawnGpuWorkers
  \/ \E user_ids \in SUBSET Users : InitQueuesAndWorkers(user_ids)
  \/ \E user \in Users : RegisterSpawnsCpu(user)
  \/ \E user \in Users : RegisterSpawnsGpu(user)
  \/ \E i \in 1..MaxProcs : WorkerRegisters(i)
  \/ \E i \in 1..MaxProcs : WorkerTakes(i)
  \/ \E i \in 1..MaxProcs : WorkerDone(i)
  \/ \E i \in 1..MaxProcs : WorkerQuits(i)

SpecPool == InitPool /\ [][NextPool]_vars


(***************************************************************************)
(* main.py: the election of the master among the server processes of one   *)
(* deployment, which share LOCK_FILE                                       *)
(***************************************************************************)
\* mutant of ExclusiveCreate: O_EXCL is left out, the file is opened whether
\* it exists or not
CreateWithoutExcl(exists) == TRUE

\* os.open(LOCK_FILE, os.O_CREAT | os.O_EXCL | os.O_WRONLY) succeeds when
\* the file does not exist, else raises FileExistsError
ExclusiveCreate(exists) == ~exists

InitElect ==
  /\ LifeIdle
  /\ PlanIdle
  /\ StoreIdle
  /\ EnvIdle
  /\ PoolIdle
  /\ ElectIdle
  /\ DispIdle
  /\ AuxIdle

\* startup_event, lines 176-179: if is_master_process(): init_queues_and_workers
StartupEvent(p) ==
  /\ sp[p] \in {"down", "stopped"}
  /\ boots < MaxBoots
  /\ boots' = boots + 1
  /\ IF ExclusiveCreate(lock)
       THEN /\ lock' = TRUE
            /\ sp' = [sp EXCEPT ![p] = "master"]
       ELSE /\ UNCHANGED lock
            /\ sp' = [sp EXCEPT ![p] = "follower"]
  /\ UNCHANGED <<lifeVars, planVars, storeVars, envVars, poolVars, dispVars, auxVars>>

\* a clean shutdown of a server process: create_app returns at line 185,
\* before the shutdown handler of lines 187-193 is defined, so no handler
\* of the program runs
ShutdownEvent(p) ==
  /\ sp[p] \in {"master", "follower"}
  /\ sp' = [sp EXCEPT ![p] = "stopped"]
  /\ UNCHANGED <<lock, boots, lifeVars, planVars, storeVars, envVars, poolVars,
                 dispVars, auxVars>>

NextElect ==
  \/ \E p \in ServerProcs : StartupEvent(p)
  \/ \E p \in ServerProcs : ShutdownEvent(p)

SpecElect == InitElect /\ [][NextElect]_vars


(***************************************************************************)
(* The gpu workers started by spawn_gpu_workers with                       *)
(* `--dequeue-strategy round_robin` on the gpu queues of the users: a      *)
(* worker takes the head of the first queue of its order that is not       *)
(* empty, then moves the queues up to and including that one to the end    *)
(* of its order (RQ's round robin).                                        *)
(***************************************************************************)
\* every order of the gpu queues on the command line (*gpu_queues)
QueueOrders ==
  {o \in [1..Cardinality(GpuUsers) -> GpuUsers] :
     \A i, j \in DOMAIN o : i # j => o[i] # o[j]}

\* position in the order o of the first queue that is not empty, 0 if none
FirstPending(o) ==
  IF \E i \in DOMAIN o : gq[o[i]] > 0
    THEN CHOOSE i \in DOMAIN o :
           gq[o[i]] > 0 /\ \A j \in 1..(i - 1) : gq[o[j]] = 0
    ELSE 0

\* mutant of Reordered: the worker is started without
\* `--dequeue-strategy round_robin` and keeps its order
ReorderedNever(o, pos) == o

\* "--dequeue-strategy", "round_robin": after a dequeue from the queue at
\* position pos the order becomes o[pos+1:] + o[:pos+1]
Reordered(o, pos) ==
  [i \in DOMAIN o |-> IF i <= Len(o) - pos THEN o[pos + i]
                      ELSE o[i - (Len(o) - pos)]]

InitDisp ==
  /\ LifeIdle
  /\ PlanIdle
  /\ StoreIdle
  /\ EnvIdle
  /\ PoolIdle
  /\ ElectIdle
  /\ AuxIdle
  /\ gq = [user \in GpuUsers |-> 0]
  /\ \E o \in QueueOrders : order = [w \in GpuWorkers |-> o]
  /\ last_dq = [w \in GpuWorkers |-> NoDequeue]

\* create_docker_action enqueues a unit on the gpu queue of a user
EnqueueGpu(user) ==
  /\ gq[user] < MaxPending
  /\ gq' = [gq EXCEPT ![user] = @ + 1]
  /\ UNCHANGED <<order, last_dq, lifeVars, planVars, storeVars, envVars, poolVars,
                 electVars, auxVars>>

\* a gpu worker dequeues its next unit
DequeueGpu(w) ==
  /\ FirstPending(order[w]) # 0
  /\ LET pos == FirstPending(order[w])
         user == order[w][pos]
     IN /\ gq' = [gq EXCEPT ![user] = @ - 1]
        /\ order' = [order EXCEPT ![w] = Reordered(@, pos)]
        /\ last_dq' = [last_dq EXCEPT ![w] =
                      [user |-> user,
                       again |-> (last_dq[w].user = user),
                       waiting |-> \E other \in GpuUsers \ {user} :
                                     gq[other] > 0]]
  /\ UNCHANGED <<lifeVars, planVars, storeVars, envVars, poolVars, electVars,
                 auxVars>>

NextDisp ==
  \/ \E user \in GpuUsers : EnqueueGpu(user)
  \/ \E w \in GpuWorkers : DequeueGpu(w)

SpecDisp == InitDisp /\ [][NextDisp]_vars


(***************************************************************************)
(* dockerized_func in exec mode (exec_run is True), lines 190-211: the     *)
(* command runs inside the container that bears container_name.  The       *)
(* container belongs to somebody else, who may stop it at any time.        *)
(***************************************************************************)
\* what exec_run can return as exit code
ExecCodes == {0, 1, 2, KilledCode}

\* s.split("/", 1): a list of strings
SplitSlash(line) == <<line>>

\* is_valid_uuid4(arg): uuid.UUID(arg) calls arg.replace, which a list does
\* not have; the AttributeError is not a ValueError and leaves the function
IsValidUuid4(arg) == "attribute_error"

InitExec ==
  /\ LifeIdle
  /\ PlanIdle
  /\ StoreIdle
  /\ EnvIdle
  /\ PoolIdle
  /\ ElectIdle
  /\ DispIdle
  /\ MetaIdle
  /\ xpc = "get"
  /\ x_container \in {"absent", "running", "exited"}
  /\ x_before = x_container
  /\ x_code = -1
  /\ x_out = <<>>
  /\ x_status = "started"
  /\ x_result = <<>>
  /\ x_exc = None

\* an exception leaves dockerized_func: the unit fails
ExecRaise(e) ==
  /\ x_status' = "failed"
  /\ x_exc' = e
  /\ xpc' = "done"

\* container = client.containers.get(container_name)
ExecGet(ok) ==
  /\ xpc = "get"
  /\ IF ok /\ x_container # "absent"
       THEN /\ xpc' = "exec"
            /\ UNCHANGED <<x_status, x_exc>>
       ELSE ExecRaise("infrastructure")
  /\ UNCHANGED <<x_container, x_before, x_code, x_out, x_result, lifeVars,
                 planVars, storeVars, envVars, poolVars, electVars, dispVars,
                 metaVars>>

\* exit_code, output = container.exec_run(command, environment=env_vars);
\* the runtime refuses the call when the container is not running
ExecRun(ok, code, log) ==
  /\ xpc = "exec"
  /\ IF ok /\ x_container = "running"
       THEN /\ x_code' = code
            /\ x_out' = log
            /\ xpc' = "parse"
            /\ UNCHANGED <<x_status, x_exc>>
       ELSE /\ ExecRaise("infrastructure")
            /\ UNCHANGED <<x_code, x_out>>
  /\ UNCHANGED <<x_container, x_before, x_result, lifeVars, planVars,
                 storeVars, envVars, poolVars, electVars, dispVars,
                 metaVars>>

\* lines 196-211: raise when exit_code != 0, else split the output, keep the
\* lines that are uuid4 and return the last of them
ExecParse ==
  /\ xpc = "parse"
  /\ LET output == Split(x_out)
         valid(line) == IsValidUuid4(SplitSlash(line)) = "true"
         ids == SelectSeq(output, valid)
     IN IF x_code # 0
          THEN /\ ExecRaise("execution_failed")
               /\ UNCHANGED x_result
          ELSE IF \E i \in DOMAIN output :
                    IsValidUuid4(SplitSlash(output[i])) = "attribute_error"
            THEN /\ ExecRaise("attribute_error")
                 /\ UNCHANGED x_result
          ELSE IF ids = <<>>
            THEN /\ ExecRaise("index_error")
                 /\ UNCHANGED x_result
          ELSE /\ x_status' = "finished"
               /\ x_result' = <<ids[Len(ids)]>>
               /\ xpc' = "done"
               /\ UNCHANGED x_exc
  /\ UNCHANGED <<x_container, x_before, x_code, x_out, lifeVars, planVars,
                 storeVars, envVars, poolVars, electVars, dispVars,
                 metaVars>>

\* the owner of the container stops it
OwnerStops ==
  /\ x_container = "running"
  /\ x_container' = "exited"
  /\ UNCHANGED <<xpc, x_before, x_code, x_out, x_status, x_result, x_exc, lifeVars,
                 planVars, storeVars, envVars, poolVars, electVars, dispVars,
                 metaVars>>

NextExec ==
  \/ \E ok \in BOOLEAN : ExecGet(ok)
  \/ \E ok \in BOOLEAN, code \in ExecCodes, log \in Logs : ExecRun(ok, code, log)
  \/ ExecParse
  \/ OwnerStops

SpecExec == InitExec /\ [][NextExec]_vars


(***************************************************************************)
(* The metadata of the last unit of a submission.  Two processes write it: *)
(* create_docker_action after queue.enqueue (lines 456-464) and the script *)
(* in the container (apps/musicanalysis/musicanalysis.py), which the       *)
(* worker starts as soon as it has dequeued the unit.  Each holds its own  *)
(* copy of job.meta; save_meta() stores the whole copy.                    *)
(***************************************************************************)
\* err = f"Error processing track {track.id}: {e}"
ScriptError == <<"Error processing track ", "id", ": e">>

InitMeta ==
  /\ LifeIdle
  /\ PlanIdle
  /\ StoreIdle
  /\ EnvIdle
  /\ PoolIdle
  /\ ElectIdle
  /\ DispIdle
  /\ ExecIdle
  /\ m_store = NoMeta
  /\ m_skipped \in {<<>>, <<"s">>, <<"s", "t">>}
  /\ d_local = NoMeta
  /\ dpc = "enqueue"
  /\ s_local = NoMeta
  /\ s_tracks \in 0..MaxScriptTracks
  /\ s_track = 0
  /\ spc = "none"

MetaFrame ==
  UNCHANGED <<m_skipped, s_tracks, lifeVars, planVars, storeVars, envVars,
              poolVars, electVars, dispVars, execVars>>

\* action = queue.enqueue(...): the unit is on its queue, its meta is empty
DispatchEnqueue ==
  /\ dpc = "enqueue"
  /\ dpc' = "meta"
  /\ spc' = "queued"
  /\ UNCHANGED <<m_store, d_local, s_local, s_track>>
  /\ MetaFrame

\* action.meta["action_name"] = ...; action.meta["parameters"] = ...;
\* action.meta["target"] = ...; action.save_meta()
DispatchSaveMeta ==
  /\ dpc = "meta"
  /\ d_local' = [d_local EXCEPT !.named = TRUE]
  /\ m_store' = d_local'
  /\ dpc' = "errors"
  /\ UNCHANGED <<s_local, s_track, spc>>
  /\ MetaFrame

\* action.meta["errors"] = [f"Skipped {track}: Too long." ...]; save_meta()
DispatchSaveErrors ==
  /\ dpc = "errors"
  /\ d_local' = [d_local EXCEPT !.errors = SkippedErrors(m_skipped)]
  /\ m_store' = d_local'
  /\ dpc' = "done"
  /\ UNCHANGED <<s_local, s_track, spc>>
  /\ MetaFrame

\* a worker has dequeued the unit and started the container; the script
\* calls job = Job.fetch(args.job_id, connection=redis_conn)
ScriptFetch ==
  /\ spc = "queued"
  /\ s_local' = m_store
  /\ spc' = "reset"
  /\ UNCHANGED <<m_store, d_local, dpc, s_track>>
  /\ MetaFrame

\* job.meta["errors"] = []; job.save_meta()
ScriptReset ==
  /\ spc = "reset"
  /\ s_local' = [s_local EXCEPT !.errors = <<>>]
  /\ m_store' = s_local'
  /\ s_track' = 1
  /\ spc' = IF s_tracks = 0 THEN "exit" ELSE "track"
  /\ UNCHANGED <<d_local, dpc>>
  /\ MetaFrame

\* job.meta["progress"] = f"... Track {i + 1}/{len(tracks)}"; job.save_meta()
ScriptProgress ==
  /\ spc = "track"
  /\ s_local' = [s_local EXCEPT !.progress = s_track]
  /\ m_store' = s_local'
  /\ spc' = "func"
  /\ UNCHANGED <<d_local, dpc, s_track>>
  /\ MetaFrame

\* func(track=track, **kwargs); when it raises:
\* job.meta["errors"] = job.meta["errors"] + [err]; job.save_meta(); return
ScriptFunc(ok) ==
  /\ spc = "func"
  /\ IF ok
       THEN /\ s_track' = s_track + 1
            /\ spc' = IF s_track = s_tracks THEN "exit" ELSE "track"
            /\ UNCHANGED <<s_local, m_store>>
       ELSE /\ s_local' = [s_local EXCEPT !.errors = Append(@, ScriptError)]
            /\ m_store' = s_local'
            /\ spc' = "exit"
            /\ UNCHANGED s_track
  /\ UNCHANGED <<d_local, dpc>>
  /\ MetaFrame

NextMeta ==
  \/ DispatchEnqueue
  \/ DispatchSaveMeta
  \/ DispatchSaveErrors
  \/ ScriptFetch
  \/ ScriptReset
  \/ ScriptProgress
  \/ \E ok \in BOOLEAN : ScriptFunc(ok)

SpecMeta == InitMeta /\ [][NextMeta]_vars


(***************************************************************************)
(* Properties of the chunk plan (checked under SpecPlan)                   *)
(***************************************************************************)
RECURSIVE SumDur(_)
SumDur(ids) == IF ids = <<>> THEN 0 ELSE tracks[Head(ids)] + SumDur(Tail(ids))

\* the number of places of the plan that hold track i
Occurrences(i) ==
  Cardinality({p \in (1..Len(target_collections)) \X (1..MaxTracks + 1) :
                 /\ p[2] <= Len(target_collections[p[1]].track_ids)
                 /\ target_collections[p[1]].track_ids[p[2]] = i})

\* a track the per-track duration cap excludes
Overlong(i) == max_track_duration > 0 /\ tracks[i] > max_track_duration

\* a track the per-track duration cap lets through
Eligible(i) == ~Overlong(i)

Planned == ppc \in {"enqueue", "done"}

\* C8: in a chunk plan over a collection or the whole library with
\* max_chunk_duration > 0, the durations of the tracks of any one chunk sum
\* to at most max_chunk_duration.
C8_ChunkDurationBounded ==
  (Chunking /\ target_type # "track" /\ max_chunk_duration > 0) =>
    \A c \in 1..Len(target_collections) :
      SumDur(target_collections[c].track_ids) <= max_chunk_duration

C8_Witness ==
  /\ ppc = "done" /\ Chunking /\ target_type = "collection"
  /\ max_chunk_duration > 0
  /\ Len(target_collections) >= 2
  /\ \E c \in 1..Len(target_collections) :
       /\ Len(target_collections[c].track_ids) >= 2
       /\ SumDur(target_collections[c].track_ids) = max_chunk_duration

\* C9: in every chunk plan, every eligible track (not excluded by
\* max_track_duration) appears in exactly one chunk.  Stated for the plans
\* in which every eligible track is short enough for a chunk of its own.
C9_EligibleTrackInExactlyOneChunk ==
  (/\ Planned /\ Chunking /\ max_chunk_duration > 0
   /\ \A i \in 1..Len(tracks) : tracks[i] <= max_chunk_duration) =>
    \A i \in 1..Len(tracks) : ~Overlong(i) => Occurrences(i) = 1

\* C10: the planner puts a track with d > max_track_duration > 0 in no chunk
\* and records its title as skipped; no other track is recorded as skipped
\* (the skipped list is exactly the titles of the over-long tracks, in order).
C10_OverlongTracksSkipped ==
  (Planned /\ Chunking) =>
    /\ \A i \in 1..Len(tracks) : Overlong(i) => Occurrences(i) = 0
    /\ LET over == SelectSeq(AllTracks, Overlong)
       IN skipped_tracks = [j \in 1..Len(over) |-> Title(over[j])]

C10_Witness ==
  /\ ppc = "done" /\ Chunking /\ target_type = "collection"
  /\ Len(skipped_tracks) = 2
  /\ \E i \in 1..Len(tracks) : ~Overlong(i) /\ Occurrences(i) = 1

\* C11: when the chunk planner runs over a collection or the whole library
\* with max_chunk_duration <= 0, it produces a single chunk that holds all
\* eligible tracks.
C11_SingleChunkWithoutCap ==
  (/\ Planned /\ Chunking /\ target_type # "track"
   /\ max_chunk_duration <= 0) =>
    /\ Len(target_collections) = 1
    /\ target_collections[1].track_ids = SelectSeq(AllTracks, Eligible)

\* C12: for every successful submission, the number of work units enqueued
\* equals the number of chunk collections the planner produced, each unit
\* targets a distinct chunk, and that number is 1 when chunking is disabled
\* or the target is a single track.
C12_OneUnitPerChunk ==
  ppc = "done" =>
    /\ Len(actions) = Len(target_collections)
    /\ \A i \in 1..Len(actions) : actions[i].target \in 1..Len(target_collections)
    /\ \A i, j \in 1..Len(actions) :
         i # j => actions[i].target # actions[j].target
    /\ (~Chunking \/ target_type = "track") => Len(actions) = 1

C12_Witness ==
  /\ ppc = "done" /\ Chunking /\ target_type = "collection"
  /\ Len(target_collections) = 3
  /\ Len(actions) = 3

\* C17: if submit fails with an error at any step, no work unit of that
\* submission is left on any queue: a submission enqueues all of its units
\* or none.
C17_NoUnitLeftAfterFailure ==
  ppc = "failed" => actions = <<>>

\* C18: if submit fails after it has created temporary chunk collections,
\* every temporary collection it created has been removed from the library
\* when it returns the error.
C18_NoTempCollectionLeftAfterFailure ==
  ppc = "failed" =>
    \A c \in 1..Len(target_collections) : target_collections[c].kind # "temp"

C20_UnsupportedTypeRejectedBeforeEnqueue ==
  (/\ param_type # None
   /\ param_type \notin {"bool", "str", "float", "int", "uuid", "list"}) =>
    /\ ppc = "failed"
    /\ perr = UnsupportedParameterType
    /\ actions = <<>>

C20_Witness ==
  /\ param_type = "dict"
  /\ ppc = "failed"
  /\ Chunking /\ Len(target_collections) = 2
  /\ actions = <<>>

\* the tracks of the chunks cs, chunk after chunk
RECURSIVE Concatenated(_)
Concatenated(cs) ==
  IF cs = <<>> THEN <<>> ELSE Head(cs).track_ids \o Concatenated(Tail(cs))

\* C32: for a collection or whole-library target with chunking, the chunk
\* plan is the greedy in-order packing: the chunks concatenated in order give
\* the eligible tracks in library order, and every chunk after the first
\* starts with the track that did not fit into the chunk before it.
\* Stated for the plans in which every track fits into a chunk of its own.
C32_GreedyInOrderPacking ==
  (/\ ppc \in {"enqueue", "done"} /\ Chunking /\ target_type # "track"
   /\ max_chunk_duration > 0
   /\ \A i \in 1..Len(tracks) : tracks[i] <= max_chunk_duration) =>
    /\ Concatenated(target_collections) = SelectSeq(AllTracks, Eligible)
    /\ \A c \in 2..Len(target_collections) :
         /\ target_collections[c].track_ids # <<>>
         /\ SumDur(target_collections[c - 1].track_ids)
              + tracks[target_collections[c].track_ids[1]] > max_chunk_duration

\* C33: the units of one submission are enqueued on one and the same queue
\* in increasing order of chunk index, unit i (from 0) bearing index i in
\* its id, and the submission returns the id of the last unit.
C33_UnitsEnqueuedInOrder ==
  /\ \A i \in 1..Len(actions) :
       /\ actions[i].job = i - 1
       /\ actions[i].queue = actions[1].queue
  /\ ppc = "done" =>
       /\ Len(actions) = Len(target_collections)
       /\ ret = Len(actions) - 1
  /\ ppc # "done" => ret = -1

C33_Witness ==
  /\ ppc = "done" /\ Chunking /\ target_type = "collection"
  /\ Len(actions) = 3
  /\ ret = 2
  /\ actions[3].queue = "gpu"

\* C34: after a successful submission whose planner skipped k over-long
\* tracks, the errors list of the last unit has exactly k entries, one for
\* each skipped track in order, and no other unit has an entry.
C34_SkippedErrorsOnLastUnit ==
  ppc = "done" =>
    LET over == IF Chunking THEN SelectSeq(AllTracks, Overlong) ELSE <<>>
    IN /\ actions[Len(actions)].errors =
            [j \in 1..Len(over) |-> <<"Skipped ", Title(over[j]), ": Too long.">>]
       /\ \A i \in 1..(Len(actions) - 1) : actions[i].errors = <<>>

C34_Witness ==
  /\ ppc = "done" /\ Chunking /\ target_type = "collection"
  /\ Len(actions) = 2
  /\ Len(actions[2].errors) = 2
  /\ actions[1].errors = <<>>


(***************************************************************************)
(* Properties of get_action_status (checked under SpecStore)               *)
(***************************************************************************)
\* the user on whose queues the job was enqueued
OwnerOf(j) == s_queue[j].user

\* C13: status(user, unit) returns a unit's record only if the unit is in
\* one of that user's two queue families or their lifecycle registries; for
\* a unit of another user or one that does not exist the outcome is the same
\* not-found.
C13_StatusOnlyOfOwnUnits ==
  reply # NoReply =>
    /\ reply.out # "not_found" =>
         /\ OwnerOf(reply.unit) = reply.user
         /\ s_queue[reply.unit].family \in {"cpu", "gpu"}
         /\ s_place[reply.unit] \in {"queue", "started", "finished", "failed"}
    /\ OwnerOf(reply.unit) # reply.user => reply.out = "not_found"

\* alice asks for a started unit of bob
C13_Witness ==
  /\ reply.user = "alice" /\ reply.out = "not_found"
  /\ OwnerOf(reply.unit) = "bob"
  /\ s_status[reply.unit] = "started"

\* C14: after a unit owned by a user reached a terminal state (finished,
\* failed, canceled or stopped), status(user, unit) returns the terminal
\* record of the unit rather than not-found.
C14_TerminalRecordReturned ==
  (/\ reply # NoReply
   /\ OwnerOf(reply.unit) = reply.user
   /\ s_status[reply.unit] \in {"finished", "failed", "canceled", "stopped"}) =>
    reply.out = s_status[reply.unit]


\* C21: when use_gpu is false, every unit submitted with gpu = true, through
\* create_docker_action or through create_action, is enqueued on the CPU
\* queue of its owner (and no unit is on a GPU queue).
C21_GpuCoercedToCpu ==
  ~use_gpu =>
    /\ \A j \in Jobs : s_queue[j].family # "gpu"
    /\ (submitted # NoSubmit /\ submitted.gpu) =>
         /\ submitted.err = None
         /\ s_queue[submitted.job] = QueueOf(submitted.user, "cpu")
\* C38: cancel(user, u) for a unit u that is in none of that user's queues
\* or registries (a unit of another user, or no unit at all) returns false
\* and changes nothing: no unit leaves its queue or changes its state and
\* no container is killed or removed.
C38_CancelOnlyOwnUnits ==
  [][\A user \in Users, j \in Jobs :
       (/\ abort_reply'.user = user /\ abort_reply'.unit = j
        /\ (OwnerOf(j) # user \/ s_place[j] = None)) =>
         /\ abort_reply'.out = "false"
         /\ UNCHANGED <<s_queue, s_place, s_status, s_container>>]_vars

\* bob's cancel of the unit alice has running returned false
C38_Witness ==
  /\ abort_reply.user = "bob" /\ abort_reply.out = "false"
  /\ OwnerOf("j1") = "alice" /\ abort_reply.unit = "j1"
  /\ s_status["j1"] = "started" /\ s_container["j1"]


(***************************************************************************)
(* Properties of the container environment (checked under SpecEnv)         *)
(***************************************************************************)
\* C22: for every caller-provided env map, the environment of the launched
\* container keeps the engine-defined values of the required keys: a caller
\* entry with one of these keys does not replace the engine's value, while
\* caller entries with other keys are added.
C22_EngineKeysNotOverridden ==
  epc = "run" =>
    /\ \A key \in EngineKeys : env_vars[key] = EngineEnv[key]
    /\ \A key \in DOMAIN env \ EngineKeys : env_vars[key] = env[key]

(***************************************************************************)
(* Properties of the worker processes (checked under SpecPool)             *)
(***************************************************************************)
\* the processes of a kind that have not quit
Live(kind) == {i \in 1..Len(procs) : procs[i].kind = kind /\ procs[i].st # "dead"}

\* C23: spawn_cpu_workers(u) is idempotent: calling it twice for the same
\* user, also back-to-back before the workers of the first call registered,
\* leaves num_user_cpu_workers CPU workers for u, as one call does.
C23_SpawnCpuWorkersIdempotent ==
  \A user \in Users :
    Cardinality({i \in Live("cpu") : procs[i].user = user})
      \in {0, NumUserCpuWorkers}

\* C24: after any sequence of init and spawn_gpu_workers calls, once the
\* requested shutdowns have taken effect, the number of live GPU workers is
\* num_gpu_workers.
C24_GpuWorkerCount ==
  (\A i \in Live("gpu") : ~procs[i].shut) =>
    Cardinality(Live("gpu")) \in {0, NumGpuWorkers}

\* C30: the number of GPU units in state started is at most num_gpu_workers
\* at every moment, also while spawn_gpu_workers replaces the pool.  Stated
\* for the runs in which every spawn call found all processes registered.
C30_RunningGpuUnitsBounded ==
  ~raced =>
    Cardinality({i \in Live("gpu") : procs[i].st = "busy"}) <= NumGpuWorkers

\* C31: after a new user registers with use_gpu enabled, the gpu workers
\* that result from the respawn are subscribed to that user's gpu queue, so
\* that a gpu unit the user enqueues afterwards is eventually picked up.
\* Unless some live gpu worker that was not told to shut down listens on the
\* user's gpu queue, no worker ever picks such a unit up.
C31_GpuPoolServesNewUser ==
  \A user \in Users :
    (use_gpu /\ reg[user] = "done") =>
      \E i \in Live("gpu") : ~procs[i].shut /\ user \in procs[i].queues

(***************************************************************************)
(* Properties of the master election (checked under SpecElect)             *)
(***************************************************************************)
\* C25: when several server processes start concurrently in one deployment,
\* at most one of them gets true from the master election and performs
\* init; every other process skips init.
C25_AtMostOneMaster ==
  Cardinality({p \in ServerProcs : sp[p] = "master"}) <= 1

C25_Witness ==
  /\ sp["p2"] = "master"
  /\ sp["p1"] = "follower"
  /\ sp["p3"] = "follower"

\* C26: the master-election lock acquired at startup is released when the
\* master process shuts down: once every process of the deployment has shut
\* down cleanly the lock file is gone, so that a restart elects a master.
C26_LockReleasedOnShutdown ==
  (\A p \in ServerProcs : sp[p] \in {"down", "stopped"}) => ~lock

C35_ExecResultIsLastLine ==
  /\ (x_container = "absent") <=> (x_before = "absent")
  /\ (xpc = "done" /\ x_code = 0 /\ ~LastLineRaises(Split(x_out))) =>
       /\ x_status = "finished"
       /\ x_result = <<LastLine(Split(x_out))>>

(***************************************************************************)
(* Properties of the metadata of a unit (checked under SpecMeta)           *)
(***************************************************************************)
InSeq(e, q) == \E i \in DOMAIN q : q[i] = e

\* C36: metadata updates to one unit are never lost to a concurrent writer:
\* the progress and the errors the script wrote are not overwritten by the
\* dispatcher's writes, and the dispatcher's skipped-track errors are in the
\* unit's errors list when the script has ended and the dispatcher returned.
C36_NoLostMetadataUpdate ==
  /\ s_local.progress > 0 => m_store.progress = s_local.progress
  /\ \A i \in DOMAIN s_local.errors : InSeq(s_local.errors[i], m_store.errors)
  /\ (spc = "exit" /\ dpc = "done") =>
       \A j \in DOMAIN m_skipped :
         InSeq(SkippedError(m_skipped[j]), m_store.errors)

(***************************************************************************)
(* Properties of the life cycle of a unit (checked under Spec)             *)
(***************************************************************************)
Terminal == {"finished", "failed", "stopped", "canceled"}

\* a step of queued -> started -> terminal (or queued -> canceled)
Forward(a, b) ==
  \/ a = b
  \/ a = None /\ b = "queued"
  \/ a = "queued" /\ b \in {"started", "canceled"}
  \/ a = "started" /\ b \in Terminal

\* nothing is left to happen to u: its horse has ended, no abort_action is
\* under way and no stop command is in flight
Settled(u) ==
  /\ hpc[u] \in {"done", "killed"}
  /\ apc[u] = "idle"
  /\ \A w \in Workers : <<w, u>> \notin stop_cmds

\* no abort_action was ever called on u
NeverAborted(u) == apc[u] = "idle" /\ abort_ret[u] = None

\* C1: the states of a unit are a prefix of queued -> started -> terminal:
\* no unit moves backward and no unit leaves a terminal state.
\* Stated for the steps of runs in which no container operation failed.
C1_StatesOnlyMoveForward ==
  [][\A u \in Units :
       ~hist'[u].infra => Forward(job_status[u], job_status'[u])]_vars

\* C2: after an abort_action on u has returned True no container named u
\* exists, at that moment or at any later one.
C2_NoContainerAfterCancel ==
  \A u \in Units : hist[u].cancel_ok => container[u].st = "absent"

C2_Witness ==
  \E u \in Units : hist[u].cancel_ok /\ Settled(u) /\ job_status[u] = "stopped"

\* C3: a cancel issued after the pick-up of u and before its container is
\* created succeeds: once the system has settled no container of u runs.
C3_EarlyCancelLeavesNoContainer ==
  \A u \in Units :
    (hist[u].early # "no" /\ Settled(u) /\ ~hist[u].infra) =>
      container[u].st # "running"

\* C4: a unit whose watchdog stopped its running container ends failed or
\* stopped with exc_info set, and never finished.  Stated for the runs in
\* which no container operation failed and no abort_action was called.
C4_WatchdogNeverFinished ==
  \A u \in Units :
    (/\ hist[u].watchdog /\ hist[u].exited = KilledCode
     /\ ~hist[u].infra /\ NeverAborted(u)) =>
      /\ job_status[u] # "finished"
      /\ hpc[u] = "done" =>
           job_status[u] \in {"failed", "stopped"} /\ exc_info[u] # None

\* C5: with func_timeout = 0 the worker never stops the container on elapsed
\* time, and the polling loop is left only with container.status = "exited".
C5_NoWatchdogWithoutTimeout ==
  \A u \in Units :
    func_timeout[u] = 0 =>
      /\ ~hist[u].watchdog
      /\ hpc[u] \in {"collect", "remove", "return"} => attrs[u].st = "exited"

C5_Witness ==
  \E u \in Units :
    /\ func_timeout[u] = 0 /\ hpc[u] = "collect"
    /\ elapsed_time[u] = MaxElapsed

\* C6: when the worker finishes the unit, on whatever path, the container it
\* created has been removed.  Stated for the runs in which no container
\* operation failed and no abort_action was called.
C6_ContainerRemovedOnEveryPath ==
  \A u \in Units :
    (hpc[u] = "done" /\ hist[u].created /\ ~hist[u].infra /\ NeverAborted(u)) =>
      container[u].st = "absent"

\* C15: cancel(user, u) on a unit u of the user that is queued removes u
\* from the pending set, so that no worker picks u up afterwards, and returns
\* true.  Stated for the calls in which no store or runtime call failed for a
\* reason of its own; a unit canceled before any pick-up was canceled while
\* queued.
C15_CancelQueuedReturnsTrue ==
  \A u \in Units :
    (/\ job_status[u] = "canceled" /\ hpc[u] = None
     /\ apc[u] = "idle" /\ ~hist[u].infra) =>
      /\ ~InQueue(u)
      /\ abort_ret[u] = "true"

\* C16: cancel never raises: whatever the unit, its state and the step of
\* the work store or of the container runtime that fails, cancel returns a
\* boolean, and it returns false whenever a step failed.
C16_CancelReturnsFalseOnFailure ==
  \A u \in Units :
    /\ abort_ret[u] \in {None, "true", "false"}
    /\ (apc[u] = "idle" /\ a_raised[u]) => abort_ret[u] = "false"

\* kill is refused: the container had exited by itself
C16_Witness ==
  \E u \in Units :
    /\ apc[u] = "idle" /\ a_raised[u] /\ abort_ret[u] = "false"
    /\ container[u].st = "exited"
    /\ ~hist[u].infra

\* C7: a container that exits with code 0 makes the unit finish with the last
\* line of its output as result; one that exits with another code makes the
\* unit fail, never finish.  Stated for the runs in which no container
\* operation failed and no abort_action was called.
C7_ResultIsLastLine ==
  \A u \in Units :
    (hpc[u] = "done" /\ ~hist[u].infra /\ NeverAborted(u)) =>
      /\ hist[u].exited = 0 =>
           /\ job_status[u] = "finished"
           /\ job_result[u] = <<LastLine(Split(hist[u].out))>>
      /\ hist[u].exited > 0 => job_status[u] = "failed"

\* C29: if removing the container fails after a run that exited with code 0
\* and whose output was read, the unit still finishes with its result: a
\* failure of the clean-up alone never makes a successful run a failed unit.
\* Stated for the units whose output has a last line and on which no
\* abort_action was called.
C29_FinishedDespiteRemoveFailure ==
  \A u \in Units :
    (/\ hpc[u] = "done" /\ NeverAborted(u)
     /\ hist[u].exited = 0
     /\ log_lines[u] = Split(hist[u].out)
     /\ ~LastLineRaises(log_lines[u])) =>
      /\ job_status[u] = "finished"
      /\ job_result[u] = <<LastLine(log_lines[u])>>

\* C28: every unit that a worker has picked up (started) eventually reaches
\* a terminal state, also when func_timeout is 0 and its container never
\* exits, or when its worker crashes: no unit stays started forever.
C28_StartedEventuallyTerminal ==
  \A u \in Units :
    (job_status[u] = "started") ~> (job_status[u] \in Terminal)

\* the job timeout ended a unit without watchdog whose container still runs
C28_Witness ==
  \E u \in Units :
    /\ job_status[u] = "failed" /\ exc_info[u] = "job_timeout"
    /\ func_timeout[u] = 0
    /\ container[u].st = "running"
    /\ NeverAborted(u)

\* C37: whenever cancel(user, u) returns false it had no partial effect.
\* Only cancel makes a unit canceled or stopped and only cancel sends stop
\* commands: so a unit on which every cancel so far returned false is
\* neither canceled nor stopped, and no stop command for it is pending.
\* Stated for the runs in which no call of the store or of the container
\* runtime failed for a reason of its own.
C37_FailedCancelHasNoEffect ==
  \A u \in Units :
    (/\ apc[u] = "idle" /\ abort_ret[u] = "false" /\ ~hist[u].cancel_ok
     /\ ~hist[u].infra) =>
      /\ job_status[u] \notin {"canceled", "stopped"}
      /\ \A w \in Workers : <<w, u>> \notin stop_cmds

=============================================================================
